---- MODULE Spec2Model ----
(***************************************************************************)
(* Model of the dynamic analysis service of APKalypse                      *)
(* (APKalypse/services/dynamic_analysis/service.py): the emulator session  *)
(* (EmulatorSession), the UI exploration loop (UIExplorer) and the service *)
(* entry point (DynamicAnalysisService.analyze).                           *)
(*                                                                         *)
(* Strings are sequences of character codes (ASCII), so that sorting,      *)
(* slicing and concatenation behave as in the source.  A float that is a   *)
(* ratio of two integers is a record [n |-> numerator, d |-> denominator]. *)
(***************************************************************************)
EXTENDS Integers, Sequences, FiniteSets, TLC

(***************************************************************************)
(* Bounds of the model.                                                    *)
(***************************************************************************)
\* largest step budget (max_actions) a run is given
MaxSteps == 3
\* number of analyze() calls made on the one service instance
MaxRuns == 2
\* largest number of declared activities of an input
MaxActivities == 2
\* largest number of top-level nodes of a generated UI hierarchy document
MaxNodes == 2
\* largest number of boot-readiness probes before the boot deadline
MaxBootPolls == 2
\* number of method calls the session-level client makes
MaxCalls == 5
\* operations in one history of the storage backend
MaxOps == 3

(***************************************************************************)
(* Program constants.                                                      *)
(***************************************************************************)
screen_width == 1080
screen_height == 1920
\* text[:20]
TextPrefixLen == 20
\* exploration_time_seconds // 5
StepSeconds == 5

Min(a, b) == IF a <= b THEN a ELSE b
Max(a, b) == IF a >= b THEN a ELSE b

(***************************************************************************)
(* Strings.                                                                *)
(***************************************************************************)
EmptyStr == << >>
\* ":"
Colon == << 58 >>
\* "elem_"
ElemPrefix == << 101, 108, 101, 109, 95 >>

RECURSIVE Str(_)
\* str(n) for a natural number n: its decimal digits
Str(n) == IF n < 10 THEN << 48 + n >> ELSE Str(n \div 10) \o << 48 + (n % 10) >>

\* s[:k]
Slice(s, k) == SubSeq(s, 1, Min(k, Len(s)))

RECURSIVE StrLess(_, _)
\* a < b on str: lexicographic by code point
StrLess(a, b) ==
    IF a = << >> THEN b # << >>
    ELSE IF b = << >> THEN FALSE
    ELSE IF Head(a) # Head(b) THEN Head(a) < Head(b)
    ELSE StrLess(Tail(a), Tail(b))

RECURSIVE Insert(_, _)
Insert(x, sortedSeq) ==
    IF sortedSeq = << >> THEN << x >>
    ELSE IF StrLess(Head(sortedSeq), x) THEN << Head(sortedSeq) >> \o Insert(x, Tail(sortedSeq))
    ELSE << x >> \o sortedSeq

RECURSIVE Sorted(_)
\* sorted(parts) for a list of str
Sorted(parts) == IF parts = << >> THEN << >> ELSE Insert(Head(parts), Sorted(Tail(parts)))

\* str(hash(tuple(t))): hash is taken to be collision free, and str of an int is never ""
StrHash(t) == << t >>

(***************************************************************************)
(* UI hierarchy documents, as the device returns them.  A node of a        *)
(* well-formed document carries the attributes the parser reads; bounds is *)
(* << x1, y1, x2, y2 >>, or << >> when the attribute does not match the    *)
(* bounds pattern.                                                         *)
(***************************************************************************)
Node(rid, text, bounds, clickable, enabled, children) ==
    [resource_id |-> rid, text |-> text, bounds |-> bounds,
     clickable |-> clickable, enabled |-> enabled, children |-> children]

Doc(nodes) == [malformed |-> FALSE, nodes |-> nodes]
MalformedDoc == [malformed |-> TRUE, nodes |-> << >>]

(***************************************************************************)
(* UIExplorer._parse_ui_hierarchy                                          *)
(***************************************************************************)
Ratio(n, d) == [n |-> n, d |-> d]

\* pydantic's ge=0.0, le=1.0 on the four bounds of UIElement
BoundsValid(b) ==
    /\ b[1] <= screen_width /\ b[3] <= screen_width
    /\ b[2] <= screen_height /\ b[4] <= screen_height

\* what a parse of no node gives
NoParse == [elems |-> << >>, parts |-> << >>, raised |-> FALSE]

\* the results of two parses, one after the other
Join(first, rest) ==
    [elems |-> first.elems \o rest.elems,
     parts |-> first.parts \o rest.parts,
     raised |-> first.raised \/ rest.raised]

\* element_id = resource_id or f"elem_{len(elements)}"
element_id_of(node, nElems) ==
    IF node.resource_id # EmptyStr THEN node.resource_id ELSE ElemPrefix \o Str(nElems)

\* build_element with a state part that leaves the text out
build_element_textless(node, element_id, kids) ==
    [elems |-> << [element_id |-> element_id,
                   resource_id |-> node.resource_id,
                   text |-> node.text,
                   bounds_left |-> Ratio(node.bounds[1], screen_width),
                   bounds_top |-> Ratio(node.bounds[2], screen_height),
                   bounds_right |-> Ratio(node.bounds[3], screen_width),
                   bounds_bottom |-> Ratio(node.bounds[4], screen_height),
                   is_clickable |-> node.clickable,
                   is_enabled |-> node.enabled,
                   is_visible |-> TRUE,
                   children |-> kids.elems] >>,
     parts |-> << element_id \o Colon >> \o kids.parts,
     raised |-> kids.raised \/ ~BoundsValid(node.bounds)]

\* lines 324-349: the state part and the UIElement of a node whose children gave kids
build_element(node, element_id, kids) ==
    [elems |-> << [element_id |-> element_id,
                   resource_id |-> node.resource_id,
                   text |-> node.text,
                   bounds_left |-> Ratio(node.bounds[1], screen_width),
                   bounds_top |-> Ratio(node.bounds[2], screen_height),
                   bounds_right |-> Ratio(node.bounds[3], screen_width),
                   bounds_bottom |-> Ratio(node.bounds[4], screen_height),
                   is_clickable |-> node.clickable,
                   is_enabled |-> node.enabled,
                   is_visible |-> TRUE,
                   children |-> kids.elems] >>,
     parts |-> << element_id \o Colon \o Slice(node.text, TextPrefixLen) >> \o kids.parts,
     raised |-> kids.raised \/ ~BoundsValid(node.bounds)]

RECURSIVE parse_node(_, _), parse_children(_, _)
\* the result of parse_node on one node while len(elements) = nElems:
\* elems is << >> (None) or the one UIElement, parts what was appended to
\* state_parts, raised whether a validation error was raised
parse_node(node, nElems) ==
    IF node.bounds = << >> THEN NoParse
    ELSE build_element(node, element_id_of(node, nElems),
                       parse_children(node.children, nElems))

\* the loop over the children of a node
parse_children(nodes, nElems) ==
    IF nodes = << >> THEN NoParse
    ELSE Join(parse_node(Head(nodes), nElems), parse_children(Tail(nodes), nElems))

RECURSIVE parse_root(_, _), parse_rest(_, _, _)
\* the loop over the children of the root: len(elements) grows as elements are appended
parse_root(nodes, nElems) ==
    IF nodes = << >> THEN NoParse
    ELSE parse_rest(parse_node(Head(nodes), nElems), Tail(nodes), nElems)

parse_rest(first, nodes, nElems) ==
    Join(first, parse_root(nodes, nElems + Len(first.elems)))

\* Fingerprint without the sort
Fingerprint_unsorted(parts) == StrHash(parts)

\* the fingerprint of a sequence of state_parts
Fingerprint(parts) == StrHash(Sorted(parts))

\* hashed that leaves the state_hash of a tree without elements at ""
hashed_blank(r) ==
    [elements |-> r.elems,
     state_hash |-> IF r.parts = << >> THEN EmptyStr ELSE Fingerprint(r.parts),
     raised |-> r.raised]

\* lines 351-356 on the parse of the root's children
hashed(r) == [elements |-> r.elems, state_hash |-> Fingerprint(r.parts), raised |-> r.raised]

\* parse_ui_hierarchy that lets the ParseError of a malformed document out
parse_ui_hierarchy_strict(doc) ==
    IF doc.malformed THEN [elements |-> << >>, state_hash |-> EmptyStr, raised |-> TRUE]
    ELSE hashed(parse_root(doc.nodes, 0))

\* (elements, state_hash), or raised when an exception other than ParseError leaves it
parse_ui_hierarchy(doc) ==
    IF doc.malformed THEN [elements |-> << >>, state_hash |-> EmptyStr, raised |-> FALSE]
    ELSE hashed(parse_root(doc.nodes, 0))

RECURSIVE collect(_), collect_all(_)
\* UIExplorer._get_clickable_elements
collect(elem) ==
    (IF elem.is_clickable /\ elem.is_visible /\ elem.is_enabled THEN << elem >> ELSE << >>)
    \o collect_all(elem.children)

collect_all(elems) ==
    IF elems = << >> THEN << >> ELSE collect(Head(elems)) \o collect_all(Tail(elems))

get_clickable_elements(elements) == collect_all(elements)

(***************************************************************************)
(* What the device shows: the snapshots a UI dump and a foreground query   *)
(* can return.  Which one is shown at a step is the device's choice.       *)
(***************************************************************************)
Snapshot(doc, activity) == [doc |-> doc, activity |-> activity]

\* one clickable button "a" with text "x"
SnapMain ==
    Snapshot(Doc(<< Node(<< 97 >>, << 120 >>, << 0, 0, 100, 100 >>, TRUE, TRUE, << >>) >>),
             "pkg/.Main")

\* a container without resource id holding two clickable children, one without resource id
SnapNested ==
    Snapshot(Doc(<< Node(EmptyStr, << 121 >>, << 0, 0, 1080, 1920 >>, FALSE, TRUE,
                         << Node(<< 98 >>, EmptyStr, << 10, 10, 200, 200 >>, TRUE, TRUE, << >>),
                            Node(EmptyStr, << 122 >>, << 0, 300, 1080, 500 >>, TRUE, TRUE, << >>) >>) >>),
             "pkg/.Second")

\* a text label only: nothing to click, foreground activity not resolvable
SnapLabel ==
    Snapshot(Doc(<< Node(<< 116 >>, << 104, 105 >>, << 0, 0, 1080, 200 >>, FALSE, TRUE, << >>) >>),
             "")

\* a document the XML parser rejects
SnapMalformed == Snapshot(MalformedDoc, "pkg/.Main")

\* a node drawn outside the 1080x1920 reference resolution
SnapWide ==
    Snapshot(Doc(<< Node(<< 119 >>, EmptyStr, << 0, 0, 1440, 2560 >>, TRUE, TRUE, << >>) >>),
             "pkg/.Main")

Snapshots == { SnapMain, SnapNested, SnapLabel, SnapMalformed, SnapWide }

\* one clickable button "b" with text "y"
SnapSecond ==
    Snapshot(Doc(<< Node(<< 98 >>, << 121 >>, << 0, 0, 100, 100 >>, TRUE, TRUE, << >>) >>),
             "pkg/.Second")

\* a label and one clickable button "c"
SnapThird ==
    Snapshot(Doc(<< Node(<< 116 >>, << 104, 105 >>, << 0, 0, 1080, 200 >>, FALSE, TRUE, << >>),
                    Node(<< 99 >>, EmptyStr, << 0, 200, 100, 300 >>, TRUE, TRUE, << >>) >>),
             "pkg/.Third")

\* a linear app: three screens, each with one clickable element whose tap
\* leads to the next
LinearApp == << SnapMain, SnapSecond, SnapThird >>

\* what the linear app shows after taps taps with no failed command: the
\* screens in order, then (the third has no next) any of its screens
LinearShown(taps) ==
    IF taps < Len(LinearApp) THEN { LinearApp[taps + 1] }
    ELSE { LinearApp[k] : k \in 1..Len(LinearApp) }

(***************************************************************************)
(* Well-formed documents for the parser on its own: up to MaxNodes         *)
(* top-level nodes, with and without resource id, with texts that differ   *)
(* only after the first TextPrefixLen characters, a node whose bounds      *)
(* attribute does not match the pattern, and a container with a child.     *)
(***************************************************************************)
OkBounds == << 0, 0, 100, 100 >>

\* a text of TextPrefixLen + 1 characters: "kk...k" followed by the character c
LongText(c) == [i \in 1..(TextPrefixLen + 1) |-> IF i <= TextPrefixLen THEN 107 ELSE c]

Texts == { EmptyStr, << 120 >>, LongText(97), LongText(98) }

Leaf(rid, text) == Node(rid, text, OkBounds, TRUE, TRUE, << >>)

\* a clickable node the parser drops: its bounds attribute has a negative coordinate
OffScreen == Node(<< 111 >>, << 120 >>, << >>, TRUE, TRUE, << >>)

Leaves ==
    { Leaf(<< 97 >>, LongText(97)), Leaf(<< 97 >>, LongText(98)),
      Leaf(<< 98 >>, << 120 >>), Leaf(EmptyStr, << 120 >>), OffScreen }

\* a container without resource id and text
Box(kids) == Node(EmptyStr, EmptyStr, OkBounds, FALSE, TRUE, kids)

TopNodes == Leaves \cup { Box(<< >>), Box(<< Leaf(<< 98 >>, << 120 >>) >>) }

NodeLists == UNION { [1..k -> TopNodes] : k \in 0..MaxNodes }

\* the document with node put before the i-th top-level node
InsertAt(nodes, i, node) ==
    SubSeq(nodes, 1, i - 1) \o << node >> \o SubSeq(nodes, i, Len(nodes))

\* the document without its i-th top-level node
RemoveAt(nodes, i) == SubSeq(nodes, 1, i - 1) \o SubSeq(nodes, i + 1, Len(nodes))

\* what probe records: the two documents parsed, what the parser returned for
\* each, and how the second was made from the first: the node that changed,
\* appeared or disappeared, and the text it had before
Probed(kind, a, b, node, was) ==
    [kind |-> kind, a |-> a, b |-> b, node |-> node, was |-> was,
     ra |-> parse_ui_hierarchy(Doc(a)), rb |-> parse_ui_hierarchy(Doc(b))]

NoProbe == Probed("none", << >>, << >>, OffScreen, EmptyStr)
\* ---------------------------------------------------------------------
\* LocalStorageBackend (src/src/storage/local.py): keys are strings, paths
\* are given relative to base_path, and the directory is a map from paths
\* to file contents

\* "/" and "\", the characters key.lstrip removes
Separators == { 47, 92 }
\* "."
Dot == 46
\* ":"
ColonChar == 58
\* ".meta.json"
metadata_suffix == << 46, 109, 101, 116, 97, 46, 106, 115, 111, 110 >>

\* key.lstrip("/\\")
RECURSIVE lstrip(_)
lstrip(key) ==
    IF key # << >> /\ Head(key) \in Separators THEN lstrip(Tail(key)) ELSE key

\* .replace("..", ""): the occurrences are taken from the left, without overlap
RECURSIVE remove_parent_refs(_)
remove_parent_refs(key) ==
    IF Len(key) < 2 THEN key
    ELSE IF key[1] = Dot /\ key[2] = Dot
    THEN remove_parent_refs(SubSeq(key, 3, Len(key)))
    ELSE << key[1] >> \o remove_parent_refs(Tail(key))

\* .replace(":", "")
remove_colons(key) == SelectSeq(key, LAMBDA c : c # ColonChar)

\* _get_full_path: the cleaned key under base_path; the keys used here clean
\* to a single path component, which resolves inside base_path (lines 48-52)
get_full_path(key) == remove_colons(remove_parent_refs(lstrip(key)))

\* _get_metadata_path
get_metadata_path(key) == get_full_path(key \o metadata_suffix)

\* the keys "a", "b", "/a", "a:" and "a.meta.json"
Keys == { << 97 >>, << 98 >>, << 47, 97 >>, << 97, 58 >>, << 97 >> \o metadata_suffix }
\* the byte strings stored
Values == { 1, 2 }
\* the paths the keys reach
Paths == { get_full_path(k) : k \in Keys } \cup { get_metadata_path(k) : k \in Keys }

\* file contents: no file, the bytes of store_bytes, or the JSON of
\* _store_metadata with its _key, size_bytes and hash
Absent == [kind |-> "absent", key |-> EmptyStr, data |-> 0]
DataFile(data) == [kind |-> "data", key |-> EmptyStr, data |-> data]
MetaFile(key, data) == [kind |-> "meta", key |-> key, data |-> data]

\* store_bytes: the data file is written, then the metadata file
store_bytes(fs, key, data) ==
    [p \in Paths |->
        IF p = get_metadata_path(key) THEN MetaFile(key, data)
        ELSE IF p = get_full_path(key) THEN DataFile(data)
        ELSE fs[p]]

\* exists
exists(fs, key) == fs[get_full_path(key)].kind # "absent"

\* load_bytes: the content of the file, or FileNotFoundError
load_bytes(fs, key) ==
    IF exists(fs, key)
    THEN [found |-> TRUE, content |-> fs[get_full_path(key)]]
    ELSE [found |-> FALSE, content |-> Absent]

\* delete: the file and the metadata file are removed; True when the file was there
delete(fs, key) ==
    [files |-> [p \in Paths |->
                    IF p \in { get_full_path(key), get_metadata_path(key) } THEN Absent
                    ELSE fs[p]],
     deleted |-> exists(fs, key)]

\* the empty directory
NoFiles == [p \in Paths |-> Absent]
\* the history of the backend: the number of operations made, for every key
\* what its caller did last with it, and the last operation with its outcome
NoLast == [op |-> "none", key |-> EmptyStr, found |-> FALSE, content |-> Absent,
           was_stored |-> FALSE]
NoWritten ==
    [ops |-> 0,
     log |-> [k \in Keys |-> [state |-> "never", value |-> 0]],
     last |-> NoLast]

(***************************************************************************)
(* State.                                                                  *)
(***************************************************************************)
Runs == 1..MaxRuns
SessionIds == 1..MaxRuns
\* None, where a session is expected
NoSession == 0
\* None or "", where a screen id is expected
NoScreen == -1
\* None, where a ServiceResult is expected
NoResult == [success |-> FALSE, warnings |-> << >>, kind |-> "none"]

VARIABLES
    emulator,   \* DynamicAnalysisService._emulator: NoSession or a session
    sessions,   \* the EmulatorSession objects: created, process, adb_path, is_ready
    hist,       \* per session, what was done to it (history, not program state)
    pc,         \* per analyze() call, where it is
    input,      \* per call, input_data
    explorer,   \* per call, the UIExplorer
    loop,       \* per call, the locals of explore(): i, max_actions, current_screen_id
    ret,        \* per call, the value of the return statement that awaits the finally block
    result,     \* the ServiceResult the last returned call handed to its caller
    obs,        \* per call, what happened in it (history, not program state)
    calls,      \* number of calls the session-level client has made
    probe,      \* the last documents given to _parse_ui_hierarchy on its own, with what it returned
    files,      \* LocalStorageBackend: the files under base_path, by path
    written     \* per storage key, what was last done with it (history, not program state)

vars == << emulator, sessions, hist, pc, input, explorer, loop, ret, result, obs, calls,
           probe, files, written >>

\* EmulatorSession(config): the dataclass defaults
NewSession == [created |-> TRUE, process |-> FALSE, adb_path |-> "none", is_ready |-> FALSE]
NotCreated == [created |-> FALSE, process |-> FALSE, adb_path |-> "none", is_ready |-> FALSE]

NoHist == [creator |-> 0, started |-> FALSE, stops |-> 0, terminates |-> 0, stopped |-> FALSE,
           issued_after_stop |-> FALSE, sent_after_stop |-> FALSE, ok_after_stop |-> FALSE]

\* UIExplorer.__init__
NewExplorer(session) ==
    [session |-> session, visited_states |-> {}, screens |-> << >>,
     transitions |-> << >>, actions |-> << >>, action_count |-> 0]

NoInput == [exploration_time_seconds |-> 0, activities |-> 0]
NoLoop == [i |-> 0, max_actions |-> 0, current_screen_id |-> NoScreen]
NoObs == [session |-> NoSession, ready |-> FALSE, issued |-> FALSE, explored |-> FALSE,
          degraded |-> FALSE, returned |-> FALSE, iterations |-> 0,
          snapshots |-> 0, step_failed |-> FALSE, step_backs |-> 0,
          step_processed |-> FALSE, step_fp |-> EmptyStr, step_swipes |-> 0,
          step_actions |-> 0, linked_failed_tap |-> FALSE,
          loop_cmds |-> FALSE, left_early |-> FALSE,
          fps |-> << >>, observed |-> {}]

Init ==
    /\ emulator = NoSession
    /\ sessions = [s \in SessionIds |-> NotCreated]
    /\ hist = [s \in SessionIds |-> NoHist]
    /\ pc = [r \in Runs |-> "idle"]
    /\ input = [r \in Runs |-> NoInput]
    /\ explorer = [r \in Runs |-> NewExplorer(NoSession)]
    /\ loop = [r \in Runs |-> NoLoop]
    /\ ret = [r \in Runs |-> NoResult]
    /\ result = NoResult
    /\ obs = [r \in Runs |-> NoObs]
    /\ calls = 0
    /\ probe = NoProbe
    /\ files = NoFiles
    /\ written = NoWritten

(***************************************************************************)
(* EmulatorSession                                                         *)
(***************************************************************************)
RECURSIVE wait_for_boot(_)
\* EmulatorSession._wait_for_boot on the probe results the device gives before
\* the boot deadline: "1", another value ("0"), or a failed command ("fail")
\* _wait_for_boot that gives up after its first probe
wait_for_boot_once(probes) ==
    [booted |-> probes # << >> /\ Head(probes) = "1", polls |-> Min(Len(probes), 1)]

wait_for_boot(probes) ==
    IF probes = << >> THEN [booted |-> FALSE, polls |-> 0]
    ELSE IF Head(probes) = "1" THEN [booted |-> TRUE, polls |-> 1]
    ELSE LET rest == wait_for_boot(Tail(probes))
         IN [booted |-> rest.booted, polls |-> rest.polls + 1]

\* boot_timeout_seconds >= 60, so at least one probe is made before the deadline
ProbeSeqs == UNION { [1..k -> {"1", "0", "fail"}] : k \in 1..MaxBootPolls }

\* lines 146-148: the spawned session after _wait_for_boot
booted_session(spawned, boot) ==
    IF boot.booted
    THEN [session |-> [spawned EXCEPT !.is_ready = TRUE], raised |-> FALSE, polls |-> boot.polls]
    ELSE [session |-> spawned, raised |-> TRUE, polls |-> boot.polls]

\* EmulatorSession.start: the session it leaves and whether EmulatorError was raised
session_start(sess, emulator_found, adb_found, probes) ==
    IF ~emulator_found THEN [session |-> sess, raised |-> TRUE, polls |-> 0]
    ELSE IF ~adb_found
    THEN [session |-> [sess EXCEPT !.adb_path = "missing"], raised |-> TRUE, polls |-> 0]
    ELSE booted_session([sess EXCEPT !.adb_path = "found", !.process = TRUE],
                        wait_for_boot(probes))

\* session_stop that forgets to drop the process
session_stop_keep(sess) ==
    [session |-> [sess EXCEPT !.is_ready = FALSE], terminated |-> sess.process]

\* EmulatorSession.stop: the session it leaves and whether it terminated a process
session_stop(sess) ==
    [session |-> [sess EXCEPT !.process = FALSE, !.is_ready = FALSE],
     terminated |-> sess.process]

\* EmulatorSession._adb before the adb process is spawned: the error raised
\* without anything being sent, or "none" when the command goes out
adb_error(sess) ==
    IF sess.adb_path = "none" THEN "adb_not_initialized"
    ELSE IF sess.adb_path = "missing" THEN "file_not_found"
    ELSE "none"

\* all sessions use the serial emulator-<adb_port>: a command is answered when
\* an emulator process is up on it
DeviceUp == \E s \in SessionIds : sessions[s].process

\* the ways one command on session s can end: a nonzero exit code is always possible
CmdOutcomes(s) ==
    IF adb_error(sessions[s]) = "none" /\ DeviceUp THEN {"ok", "fail"} ELSE {"fail"}

\* history: a command was issued on a session
HistCmd(h, sess, outcome) ==
    [h EXCEPT !.issued_after_stop = @ \/ h.stopped,
              !.sent_after_stop = @ \/ (h.stopped /\ adb_error(sess) = "none"),
              !.ok_after_stop = @ \/ (h.stopped /\ outcome = "ok")]

\* history: stop() was called on a session
HistStop(h, sess) ==
    [h EXCEPT !.stops = @ + 1,
              !.terminates = @ + (IF session_stop(sess).terminated THEN 1 ELSE 0),
              !.stopped = TRUE]

(***************************************************************************)
(* DynamicAnalysisService._mock_analysis                                   *)
(***************************************************************************)
MockWarning == "Emulator not available - using mock analysis based on static data"

\* the name of the i-th activity the manifest declares, counted from 0
declared_activity(i) == "pkg/.Activity" \o ToString(i)

mock_screens(n) ==
    [k \in 1..n |-> [screen_id |-> k - 1, activity_name |-> declared_activity(k - 1),
                     root_elements |-> << >>, interactive_elements |-> << >>]]

\* mock_transitions with a transition out of every screen, the last one included
mock_transitions_closed(screens) ==
    [k \in 1..Len(screens) |->
        [transition_id |-> k - 1,
         from_screen_id |-> screens[k].screen_id,
         to_screen_id |-> screens[IF k < Len(screens) THEN k + 1 ELSE 1].screen_id,
         triggered_by_action |-> [action_id |-> k - 1, action_type |-> "tap",
                                  target_element_id |-> EmptyStr, coordinates |-> << >>,
                                  source_screen_id |-> screens[k].screen_id]]]

mock_transitions(screens) ==
    [k \in 1..(Len(screens) - 1) |->
        [transition_id |-> k - 1,
         from_screen_id |-> screens[k].screen_id,
         to_screen_id |-> screens[k + 1].screen_id,
         triggered_by_action |-> [action_id |-> k - 1, action_type |-> "tap",
                                  target_element_id |-> EmptyStr, coordinates |-> << >>,
                                  source_screen_id |-> screens[k].screen_id]]]

\* mock_analysis returned through ServiceResult.ok, without the warning
mock_analysis_unflagged(inp) ==
    [success |-> TRUE, warnings |-> << >>, kind |-> "result",
     data |-> [screens |-> mock_screens(inp.activities),
               transitions |-> mock_transitions(mock_screens(inp.activities)),
               exploration_coverage |-> Ratio(3, 10),
               total_actions |-> Len(mock_transitions(mock_screens(inp.activities)))]]

mock_analysis(inp) ==
    LET screens == mock_screens(inp.activities)
        transitions == mock_transitions(screens)
    IN [success |-> TRUE, warnings |-> << MockWarning >>, kind |-> "result",
        data |-> [screens |-> screens, transitions |-> transitions,
                  exploration_coverage |-> Ratio(3, 10),
                  total_actions |-> Len(transitions)]]

(***************************************************************************)
(* The result of a completed exploration (analyze, "Calculate coverage")   *)
(***************************************************************************)
RatioLeq(a, b) == a.n * b.d <= b.n * a.d
One == Ratio(1, 1)

\* clamp without the min
clamp_none(coverage) == coverage

\* min(coverage, 1.0)
clamp(coverage) == IF RatioLeq(coverage, One) THEN coverage ELSE One

exploration_coverage(nscreens, total_activities) ==
    clamp(Ratio(nscreens, Max(total_activities, 1)))

live_result(ex, inp) ==
    [success |-> TRUE, warnings |-> << >>, kind |-> "result",
     data |-> [screens |-> ex.screens, transitions |-> ex.transitions,
               exploration_coverage |-> exploration_coverage(Len(ex.screens), inp.activities),
               total_actions |-> ex.action_count]]

\* step_budget rounding up
step_budget_up(seconds) == (seconds + StepSeconds - 1) \div StepSeconds

\* max_actions = input_data.exploration_time_seconds // 5
step_budget(seconds) == seconds \div StepSeconds

(***************************************************************************)
(* UIExplorer.explore: one iteration of the loop                           *)
(***************************************************************************)
\* where the first failing channel command of an iteration is: the UI dump,
\* the foreground query, the swipe or tap ("input"), or nowhere
FailPoints(s) ==
    IF CmdOutcomes(s) = {"fail"} THEN {"dump"} ELSE {"none", "dump", "activity", "input"}

element_ids(elems) == [k \in 1..Len(elems) |-> elems[k].element_id]

\* is_new_state without the membership test
is_new_state_always(state_hash, visited_states) == TRUE

\* line 392: the snapshot is a state not seen before
is_new_state(state_hash, visited_states) == state_hash \notin visited_states

\* new_transition naming the screen id after the one just appended
new_transition_dangling(ex, current_screen_id, screen) ==
    [transition_id |-> Len(ex.transitions),
     from_screen_id |-> current_screen_id,
     to_screen_id |-> screen.screen_id + 1,
     triggered_by_action |-> ex.actions[Len(ex.actions)]]

\* lines 407-413: the transition into a newly found screen
new_transition(ex, current_screen_id, screen) ==
    [transition_id |-> Len(ex.transitions),
     from_screen_id |-> current_screen_id,
     to_screen_id |-> screen.screen_id,
     triggered_by_action |-> ex.actions[Len(ex.actions)]]

\* what an iteration leaves: the explorer, current_screen_id, whether an
\* exception left the try block, and what was done
Outcome(ex, current_screen_id, raised, processed, is_new, swiped, state_hash) ==
    [explorer |-> ex, current_screen_id |-> current_screen_id, raised |-> raised,
     processed |-> processed, is_new |-> is_new, swiped |-> swiped,
     state_hash |-> state_hash]

\* lines 396-402
new_screen(ex, activity, elements) ==
    [screen_id |-> Len(ex.screens),
     activity_name |-> activity,
     root_elements |-> elements,
     interactive_elements |-> element_ids(get_clickable_elements(elements))]

\* record_state that does not add the state to visited_states
record_state_unvisited(ex, current_screen_id, state_hash, screen) ==
    [ex EXCEPT !.screens = Append(@, screen),
               !.transitions = IF current_screen_id # NoScreen /\ Len(ex.actions) > 0
                               THEN Append(@, new_transition(ex, current_screen_id, screen))
                               ELSE @]

\* lines 393-414: a new state is recorded, with the transition into it
record_state(ex, current_screen_id, state_hash, screen) ==
    [ex EXCEPT !.visited_states = @ \cup {state_hash},
               !.screens = Append(@, screen),
               !.transitions = IF current_screen_id # NoScreen /\ Len(ex.actions) > 0
                               THEN Append(@, new_transition(ex, current_screen_id, screen))
                               ELSE @]

\* lines 433-434: the pixel tapped, int((left + right) / 2 * screen_width) and
\* int((top + bottom) / 2 * screen_height)
tap_point(target) ==
    << ((target.bounds_left.n + target.bounds_right.n) * screen_width)
            \div (2 * target.bounds_left.d),
       ((target.bounds_top.n + target.bounds_bottom.n) * screen_height)
            \div (2 * target.bounds_top.d) >>

\* record_action without the screen the action is performed from
record_action_unsourced(ex, current_screen_id, target) ==
    [ex EXCEPT !.actions = Append(@, [action_id |-> ex.action_count,
                                      action_type |-> "tap",
                                      target_element_id |-> target.element_id,
                                      coordinates |->
                                        << Ratio(target.bounds_left.n + target.bounds_right.n, screen_width),
                                           Ratio(target.bounds_top.n + target.bounds_bottom.n, screen_height) >>,
                                      source_screen_id |-> NoScreen]),
               !.action_count = @ + 1]

\* lines 437-446: the action on target is recorded
record_action(ex, current_screen_id, target) ==
    [ex EXCEPT !.actions = Append(@, [action_id |-> ex.action_count,
                                      action_type |-> "tap",
                                      target_element_id |-> target.element_id,
                                      coordinates |->
                                        << Ratio(target.bounds_left.n + target.bounds_right.n, screen_width),
                                           Ratio(target.bounds_top.n + target.bounds_bottom.n, screen_height) >>,
                                      source_screen_id |-> current_screen_id]),
               !.action_count = @ + 1]

\* act that taps first and records the action when the tap went through
act_tap_first(ex, current_screen_id, clickable, pick, input_fails, is_new, state_hash) ==
    IF clickable = << >>
    THEN Outcome(ex, current_screen_id, input_fails, TRUE, is_new, TRUE, state_hash)
    ELSE Outcome(IF input_fails THEN ex
                 ELSE record_action(ex, current_screen_id, clickable[pick]),
                 current_screen_id, input_fails, TRUE, is_new, FALSE, state_hash)

\* act without the fallback swipe
act_unswiped(ex, current_screen_id, clickable, pick, input_fails, is_new, state_hash) ==
    IF clickable = << >>
    THEN Outcome(ex, current_screen_id, FALSE, TRUE, is_new, FALSE, state_hash)
    ELSE Outcome(record_action(ex, current_screen_id, clickable[pick]), current_screen_id,
                 input_fails, TRUE, is_new, FALSE, state_hash)

\* lines 418-450: something to click is looked for, then swipe or tap
act(ex, current_screen_id, clickable, pick, input_fails, is_new, state_hash) ==
    IF clickable = << >>
    THEN Outcome(ex, current_screen_id, input_fails, TRUE, is_new, TRUE, state_hash)
    ELSE Outcome(record_action(ex, current_screen_id, clickable[pick]), current_screen_id,
                 input_fails, TRUE, is_new, FALSE, state_hash)

\* observe that records a transition on a revisit as well, back into the
\* current screen
observe_revisit_linked(ex, current_screen_id, activity, parsed, pick, input_fails, is_new) ==
    IF is_new
    THEN act(record_state(ex, current_screen_id, parsed.state_hash,
                          new_screen(ex, activity, parsed.elements)),
             Len(ex.screens),
             get_clickable_elements(parsed.elements), pick, input_fails,
             TRUE, parsed.state_hash)
    ELSE act(IF current_screen_id # NoScreen /\ Len(ex.actions) > 0
             THEN [ex EXCEPT !.transitions =
                        Append(@, new_transition(ex, current_screen_id,
                                                 ex.screens[current_screen_id + 1]))]
             ELSE ex,
             current_screen_id,
             get_clickable_elements(parsed.elements), pick, input_fails,
             FALSE, parsed.state_hash)

\* lines 391-450 on a parsed snapshot
observe(ex, current_screen_id, activity, parsed, pick, input_fails, is_new) ==
    IF is_new
    THEN act(record_state(ex, current_screen_id, parsed.state_hash,
                          new_screen(ex, activity, parsed.elements)),
             Len(ex.screens),
             get_clickable_elements(parsed.elements), pick, input_fails,
             TRUE, parsed.state_hash)
    ELSE act(ex, current_screen_id,
             get_clickable_elements(parsed.elements), pick, input_fails,
             FALSE, parsed.state_hash)

\* lines 389-450 once the dump and the foreground query have answered
try_parsed(ex, current_screen_id, activity, parsed, pick, input_fails) ==
    IF parsed.raised
    THEN Outcome(ex, current_screen_id, TRUE, FALSE, FALSE, FALSE, EmptyStr)
    ELSE observe(ex, current_screen_id, activity, parsed, pick, input_fails,
                 is_new_state(parsed.state_hash, ex.visited_states))

\* the body of the try block (lines 386-450) on snapshot snap, with
\* random.choice taking the pick-th clickable element
explore_try(ex, current_screen_id, snap, fail_at, pick) ==
    IF fail_at \in {"dump", "activity"}
    THEN Outcome(ex, current_screen_id, TRUE, FALSE, FALSE, FALSE, EmptyStr)
    ELSE try_parsed(ex, current_screen_id, snap.activity, parse_ui_hierarchy(snap.doc),
                    pick, fail_at = "input")

\* the number of elements random.choice chooses among
choices(parsed) ==
    IF parsed.raised THEN 0 ELSE Len(get_clickable_elements(parsed.elements))

\* the elements random.choice can return on a snapshot
Picks(snap) == 1..Max(1, choices(parse_ui_hierarchy(snap.doc)))

(***************************************************************************)
(* DynamicAnalysisService.analyze, one action per awaited operation.       *)
(***************************************************************************)
\* exploration_time_seconds of the inputs: non-negative budgets, multiples of
\* the step estimate and times in between
ExplorationTimes == { StepSeconds * n + 4 * (n % 2) : n \in 0..MaxSteps }

\* input_data is not written by analyze: each of its fields takes its value
\* at the statement that first reads it
ReadInput(inp, field, v) == [inp EXCEPT ![field] = v]

Active(r) == pc[r] \notin {"idle", "done"}

\* the locals of the calls that have returned are gone when a new call starts
Fresh(f, r, v, init) ==
    [q \in Runs |-> IF q = r THEN v ELSE IF pc[q] = "done" THEN init ELSE f[q]]

\* s is the next session object to be created
IsNew(s) == ~sessions[s].created /\ \A t \in 1..(s - 1) : sessions[t].created

\* the except clauses of analyze: both return the mock analysis, and the
\* finally block runs before the caller sees it
Degrade(r, o) ==
    /\ \E n \in 0..MaxActivities :
        /\ input' = [input EXCEPT ![r] = ReadInput(@, "activities", n)]
        /\ ret' = [ret EXCEPT ![r] = mock_analysis(ReadInput(input[r], "activities", n))]
    /\ pc' = [pc EXCEPT ![r] = "finally"]
    /\ obs' = [obs EXCEPT ![r] = [o EXCEPT !.degraded = TRUE]]

\* the calls are made one after the other
Quiet == \A q \in Runs : ~Active(q)

\* analyze is called (lines 479-491)
AnalyzeCall(r) ==
    /\ Quiet
    /\ pc[r] = "idle"
    /\ \A q \in 1..(r - 1) : pc[q] = "done"
    /\ input' = Fresh(input, r, NoInput, NoInput)
    /\ explorer' = Fresh(explorer, r, NewExplorer(NoSession), NewExplorer(NoSession))
    /\ loop' = Fresh(loop, r, NoLoop, NoLoop)
    /\ obs' = Fresh(obs, r, NoObs, NoObs)
    /\ ret' = Fresh(ret, r, NoResult, NoResult)
    /\ pc' = [pc EXCEPT ![r] = "fetch"]
    /\ result' = NoResult
    /\ UNCHANGED << emulator, sessions, hist, calls, probe, files, written >>

\* lines 493-502: the APK is fetched from storage; a missing key raises,
\* which the outer except turns into the mock analysis
FetchApk(r) ==
    /\ pc[r] = "fetch"
    /\ \E apk_stored \in BOOLEAN :
        IF apk_stored
        THEN /\ pc' = [pc EXCEPT ![r] = "start"]
             /\ UNCHANGED << input, ret, obs >>
        ELSE Degrade(r, obs[r])
    /\ UNCHANGED << emulator, sessions, hist, explorer, loop, result, calls, probe, files, written >>

\* the session s of call r has been started
Started(r, s, started) ==
    /\ emulator' = s
    /\ sessions' = [sessions EXCEPT ![s] = started.session]
    /\ hist' = [hist EXCEPT ![s] = [NoHist EXCEPT !.creator = r, !.started = TRUE]]
    /\ IF started.raised
       THEN Degrade(r, [obs[r] EXCEPT !.session = s])
       ELSE /\ pc' = [pc EXCEPT ![r] = "install"]
            /\ obs' = [obs EXCEPT ![r].session = s, ![r].ready = started.session.is_ready]
            /\ UNCHANGED << input, ret >>

\* lines 504-511: a new session is created and started
StartEmulator(r) ==
    /\ pc[r] = "start"
    /\ \E s \in SessionIds, emulator_found \in BOOLEAN, adb_found \in BOOLEAN, probes \in ProbeSeqs :
        /\ IsNew(s)
        /\ Started(r, s, session_start(NewSession, emulator_found, adb_found, probes))
    /\ UNCHANGED << explorer, loop, result, calls, probe, files, written >>

\* lines 161-169: a boot probe of a freshly spawned emulator goes out through
\* _adb and the device never answers it; the deadline of line 161 is looked
\* at between two probes only, so start never returns
BootProbeHangs(r) ==
    /\ pc[r] = "start"
    /\ \E s \in SessionIds :
        /\ IsNew(s)
        /\ emulator' = s
        /\ sessions' = [sessions EXCEPT ![s] = [NewSession EXCEPT !.adb_path = "found",
                                                                 !.process = TRUE]]
        /\ hist' = [hist EXCEPT ![s] = [NoHist EXCEPT !.creator = r, !.started = TRUE]]
        /\ obs' = [obs EXCEPT ![r].session = s]
    /\ pc' = [pc EXCEPT ![r] = "hung"]
    /\ UNCHANGED << input, explorer, loop, ret, result, calls, probe, files, written >>

\* line 192: a command of analyze (the install, the launch, or the dump that
\* begins an iteration of the loop) goes out and the device never answers
\* it; proc.communicate() is awaited without a timeout, so the call stays there
CommandHangs(r) ==
    /\ \/ pc[r] \in {"install", "launch"}
       \/ pc[r] = "explore" /\ loop[r].i < loop[r].max_actions
    /\ emulator # NoSession
    /\ adb_error(sessions[emulator]) = "none"
    /\ hist' = [hist EXCEPT ![emulator] = HistCmd(@, sessions[emulator], "hang")]
    /\ obs' = [obs EXCEPT ![r].issued = TRUE]
    /\ pc' = [pc EXCEPT ![r] = "hung"]
    /\ UNCHANGED << emulator, sessions, input, explorer, loop, ret, result, calls, probe,
                    files, written >>

\* lines 513-514
InstallApk(r) ==
    /\ pc[r] = "install"
    /\ emulator # NoSession
    /\ \E outcome \in CmdOutcomes(emulator) :
        /\ hist' = [hist EXCEPT ![emulator] = HistCmd(@, sessions[emulator], outcome)]
        /\ IF outcome = "ok"
           THEN /\ pc' = [pc EXCEPT ![r] = "launch"]
                /\ obs' = [obs EXCEPT ![r].issued = TRUE]
                /\ UNCHANGED << input, ret >>
           ELSE Degrade(r, [obs[r] EXCEPT !.issued = TRUE])
    /\ UNCHANGED << emulator, sessions, explorer, loop, result, calls, probe, files, written >>

\* lines 516-528: the app is launched, the explorer built and the budget computed
LaunchApp(r) ==
    /\ pc[r] = "launch"
    /\ emulator # NoSession
    /\ \E outcome \in CmdOutcomes(emulator) :
        /\ hist' = [hist EXCEPT ![emulator] = HistCmd(@, sessions[emulator], outcome)]
        /\ IF outcome = "ok"
           THEN /\ pc' = [pc EXCEPT ![r] = "explore"]
                /\ explorer' = [explorer EXCEPT ![r] = NewExplorer(emulator)]
                /\ \E t \in ExplorationTimes :
                    /\ input' = [input EXCEPT ![r] = ReadInput(@, "exploration_time_seconds", t)]
                    /\ loop' = [loop EXCEPT ![r] = [NoLoop EXCEPT !.max_actions = step_budget(t)]]
                /\ obs' = [obs EXCEPT ![r].issued = TRUE, ![r].explored = TRUE]
                /\ ret' = ret
           ELSE /\ Degrade(r, [obs[r] EXCEPT !.issued = TRUE])
                /\ UNCHANGED << explorer, loop >>
    /\ UNCHANGED << emulator, sessions, result, calls, probe, files, written >>

\* history of one iteration with outcome t, begun with the explorer before:
\* the counts of the run, and of this iteration whether it processed a
\* snapshot, with which fingerprint, the commands and actions it made, and
\* whether it linked a new screen to a step whose tap had failed
Observed(o, t, before, escaped) ==
    [o EXCEPT !.iterations = @ + 1,
              !.snapshots = @ + (IF t.processed THEN 1 ELSE 0),
              !.observed = IF t.processed THEN @ \cup {t.state_hash} ELSE @,
              !.fps = IF t.is_new THEN Append(@, t.state_hash) ELSE @,
              !.step_failed = t.raised,
              !.step_backs = IF t.raised THEN 1 ELSE 0,
              !.step_processed = t.processed,
              !.step_fp = IF t.processed THEN t.state_hash ELSE EmptyStr,
              !.step_swipes = IF t.swiped THEN 1 ELSE 0,
              !.step_actions = t.explorer.action_count - before.action_count,
              !.linked_failed_tap = /\ o.step_failed
                                    /\ o.step_actions = 1
                                    /\ Len(t.explorer.transitions) > Len(before.transitions),
              !.loop_cmds = TRUE,
              !.left_early = escaped]

\* the iteration ends: after an exception press_back is called (lines 452-456),
\* and an exception of press_back leaves explore and reaches the outer
\* except of analyze
StepEnd(r, s, t, back) ==
    /\ explorer' = [explorer EXCEPT ![r] = t.explorer]
    /\ loop' = [loop EXCEPT ![r].i = IF t.raised /\ back = "fail" THEN @ ELSE @ + 1,
                            ![r].current_screen_id = t.current_screen_id]
    /\ hist' = [hist EXCEPT ![s] = HistCmd(@, sessions[s], IF t.raised THEN back ELSE "ok")]
    /\ IF t.raised /\ back = "fail"
       THEN Degrade(r, Observed(obs[r], t, explorer[r], TRUE))
       ELSE /\ obs' = [obs EXCEPT ![r] = Observed(@, t, explorer[r], FALSE)]
            /\ UNCHANGED << pc, ret, input >>

\* lines 384-456: one iteration of the exploration loop, on a device that
\* shows one of the snapshots shown and whose commands fail at one of fails
ExploreStepOn(r, shown, fails) ==
    /\ pc[r] = "explore"
    /\ loop[r].i < loop[r].max_actions
    /\ \E snap \in shown, fail_at \in fails,
          back \in CmdOutcomes(explorer[r].session) :
        \E pick \in Picks(snap) :
            StepEnd(r, explorer[r].session,
                    explore_try(explorer[r], loop[r].current_screen_id, snap, fail_at, pick),
                    back)
    /\ UNCHANGED << emulator, sessions, result, calls, probe, files, written >>

\* one iteration on a device that may show anything and fail anywhere
ExploreStep(r) == ExploreStepOn(r, Snapshots, FailPoints(explorer[r].session))

\* lines 531-551: the loop is over, the live result is built
ExploreReturn(r) ==
    /\ pc[r] = "explore"
    /\ loop[r].i >= loop[r].max_actions
    /\ \E n \in 0..MaxActivities :
        /\ input' = [input EXCEPT ![r] = ReadInput(@, "activities", n)]
        /\ ret' = [ret EXCEPT ![r] = live_result(explorer[r], ReadInput(input[r], "activities", n))]
    /\ pc' = [pc EXCEPT ![r] = "finally"]
    /\ UNCHANGED << emulator, sessions, hist, explorer, loop, result, obs, calls, probe, files, written >>

\* lines 557-559: the finally block stops the session self._emulator names,
\* then the caller receives the result
Finally(r) ==
    /\ pc[r] = "finally"
    /\ IF emulator # NoSession
       THEN /\ sessions' = [sessions EXCEPT ![emulator] = session_stop(@).session]
            /\ hist' = [hist EXCEPT ![emulator] = HistStop(@, sessions[emulator])]
       ELSE UNCHANGED << sessions, hist >>
    /\ result' = ret[r]
    /\ pc' = [pc EXCEPT ![r] = "done"]
    /\ obs' = [obs EXCEPT ![r].returned = TRUE]
    /\ UNCHANGED << emulator, input, explorer, loop, ret, calls, probe, files, written >>

Next ==
    \/ \E r \in Runs : AnalyzeCall(r)
    \/ \E r \in Runs : FetchApk(r)
    \/ \E r \in Runs : StartEmulator(r)
    \/ \E r \in Runs : BootProbeHangs(r)
    \/ \E r \in Runs : InstallApk(r)
    \/ \E r \in Runs : LaunchApp(r)
    \/ \E r \in Runs : ExploreStep(r)
    \/ \E r \in Runs : CommandHangs(r)
    \/ \E r \in Runs : ExploreReturn(r)
    \/ \E r \in Runs : Finally(r)

Spec == Init /\ [][Next]_vars

(***************************************************************************)
(* The session on its own: a client that creates EmulatorSession objects   *)
(* and calls their methods in any order (start at most once per session).  *)
(***************************************************************************)
ClientCreate ==
    /\ calls < MaxCalls
    /\ \E s \in SessionIds :
        /\ IsNew(s)
        /\ sessions' = [sessions EXCEPT ![s] = NewSession]
        /\ hist' = [hist EXCEPT ![s] = NoHist]
    /\ calls' = calls + 1
    /\ UNCHANGED << emulator, pc, input, explorer, loop, ret, result, obs, probe, files, written >>

ClientStart(s) ==
    /\ calls < MaxCalls
    /\ sessions[s].created
    /\ ~hist[s].started
    /\ ~hist[s].stopped
    /\ \E emulator_found \in BOOLEAN, adb_found \in BOOLEAN, probes \in ProbeSeqs :
        sessions' = [sessions EXCEPT ![s] =
                        session_start(@, emulator_found, adb_found, probes).session]
    /\ hist' = [hist EXCEPT ![s].started = TRUE]
    /\ calls' = calls + 1
    /\ UNCHANGED << emulator, pc, input, explorer, loop, ret, result, obs, probe, files, written >>

\* any of install_apk, launch_app, get_ui_hierarchy, get_current_activity, tap,
\* swipe, input_text, press_back, take_screenshot: each goes through _adb
ClientCommand(s) ==
    /\ calls < MaxCalls
    /\ sessions[s].created
    /\ \E outcome \in CmdOutcomes(s) :
        hist' = [hist EXCEPT ![s] = HistCmd(@, sessions[s], outcome)]
    /\ calls' = calls + 1
    /\ UNCHANGED << emulator, sessions, pc, input, explorer, loop, ret, result, obs, probe, files, written >>

ClientStop(s) ==
    /\ calls < MaxCalls
    /\ sessions[s].created
    /\ sessions' = [sessions EXCEPT ![s] = session_stop(@).session]
    /\ hist' = [hist EXCEPT ![s] = HistStop(@, sessions[s])]
    /\ calls' = calls + 1
    /\ UNCHANGED << emulator, pc, input, explorer, loop, ret, result, obs, probe, files, written >>

SessionNext ==
    \/ ClientCreate
    \/ \E s \in SessionIds : ClientStart(s)
    \/ \E s \in SessionIds : ClientCommand(s)
    \/ \E s \in SessionIds : ClientStop(s)

SessionSpec == Init /\ [][SessionNext]_vars

(***************************************************************************)
(* analyze on a device that runs the linear app and fails no command of    *)
(* the exploration loop.                                                   *)
(***************************************************************************)
LinearStep(r) == ExploreStepOn(r, LinearShown(loop[r].i), {"none"})

LinearNext ==
    \/ \E r \in Runs : AnalyzeCall(r)
    \/ \E r \in Runs : FetchApk(r)
    \/ \E r \in Runs : StartEmulator(r)
    \/ \E r \in Runs : InstallApk(r)
    \/ \E r \in Runs : LaunchApp(r)
    \/ \E r \in Runs : LinearStep(r)
    \/ \E r \in Runs : ExploreReturn(r)
    \/ \E r \in Runs : Finally(r)

LinearSpec == Init /\ [][LinearNext]_vars

(***************************************************************************)
(* The parser on its own: _parse_ui_hierarchy is applied once to two        *)
(* documents, any two, or one and what a change of the UI makes of it.     *)
(***************************************************************************)
NotParsing ==
    UNCHANGED << emulator, sessions, hist, pc, input, explorer, loop, ret, result, obs, calls,
                 files, written >>

\* any two documents
ParsePair ==
    /\ probe.kind = "none"
    /\ \E a \in NodeLists, b \in NodeLists : probe' = Probed("pair", a, b, OffScreen, EmptyStr)
    /\ NotParsing

\* the text of one node changes: a top-level node, or the child of a container
ParseTextChange ==
    /\ probe.kind = "none"
    /\ \E a \in NodeLists, i \in 1..MaxNodes, t \in Texts :
        /\ i <= Len(a)
        /\ \/ /\ t # a[i].text
              /\ probe' = Probed("text", a, [a EXCEPT ![i].text = t],
                                 [a[i] EXCEPT !.text = t], a[i].text)
           \/ /\ a[i].children # << >>
              /\ t # a[i].children[1].text
              /\ probe' = Probed("text", a, [a EXCEPT ![i].children[1].text = t],
                                 [a[i].children[1] EXCEPT !.text = t], a[i].children[1].text)
    /\ NotParsing

\* a clickable node appears: among the top-level nodes, or in a container
ParseAdded ==
    /\ probe.kind = "none"
    /\ \E a \in NodeLists, i \in 1..(MaxNodes + 1), node \in Leaves :
        \/ /\ i <= Len(a) + 1
           /\ probe' = Probed("add", a, InsertAt(a, i, node), node, EmptyStr)
        \/ /\ i <= Len(a)
           /\ ~a[i].clickable
           /\ a[i].bounds # << >>
           /\ probe' = Probed("add", a, [a EXCEPT ![i].children = << node >> \o @],
                              node, EmptyStr)
    /\ NotParsing

\* a clickable node disappears: a top-level node, or the child of a container
ParseRemoved ==
    /\ probe.kind = "none"
    /\ \E a \in NodeLists, i \in 1..MaxNodes :
        /\ i <= Len(a)
        /\ \/ /\ a[i].clickable
              /\ probe' = Probed("remove", a, RemoveAt(a, i), a[i], EmptyStr)
           \/ /\ a[i].children # << >>
              /\ a[i].children[1].clickable
              /\ probe' = Probed("remove", a, [a EXCEPT ![i].children = Tail(@)],
                                 a[i].children[1], EmptyStr)
    /\ NotParsing

ParseNext ==
    \/ ParsePair
    \/ ParseTextChange
    \/ ParseAdded
    \/ ParseRemoved

ParseSpec == Init /\ [][ParseNext]_vars

\* ---------------------------------------------------------------------
\* two analyze() calls on one service whose awaits interleave: a call is made
\* while the other is suspended in one of its awaits; the device shows a
\* screen with a button or one with a label, and its commands may fail

\* analyze is called (lines 479-491) whatever the other call is doing
AnalyzeOverlapping(r) ==
    /\ pc[r] = "idle"
    /\ \A q \in 1..(r - 1) : pc[q] # "idle"
    /\ input' = Fresh(input, r, NoInput, NoInput)
    /\ explorer' = Fresh(explorer, r, NewExplorer(NoSession), NewExplorer(NoSession))
    /\ loop' = Fresh(loop, r, NoLoop, NoLoop)
    /\ obs' = Fresh(obs, r, NoObs, NoObs)
    /\ ret' = Fresh(ret, r, NoResult, NoResult)
    /\ pc' = [pc EXCEPT ![r] = "fetch"]
    /\ result' = NoResult
    /\ UNCHANGED << emulator, sessions, hist, calls, probe, files, written >>

OverlapStep(r) == ExploreStepOn(r, { SnapMain, SnapLabel }, {"none"})

OverlapNext ==
    \/ \E r \in Runs : AnalyzeOverlapping(r)
    \/ \E r \in Runs : FetchApk(r)
    \/ \E r \in Runs : StartEmulator(r)
    \/ \E r \in Runs : InstallApk(r)
    \/ \E r \in Runs : LaunchApp(r)
    \/ \E r \in Runs : OverlapStep(r)
    \/ \E r \in Runs : ExploreReturn(r)
    \/ \E r \in Runs : Finally(r)

OverlapSpec == Init /\ [][OverlapNext]_vars

\* ---------------------------------------------------------------------
\* a client of one LocalStorageBackend, one operation after the other

NotStoring ==
    UNCHANGED << emulator, sessions, hist, pc, input, explorer, loop, ret, result, obs, calls,
                 probe >>

\* the history after an operation op on key with the outcome found, content
Logged(op, key, found, content, state, value) ==
    [ops |-> written.ops + 1,
     log |-> IF state = "same" THEN written.log
             ELSE [written.log EXCEPT ![key] = [state |-> state, value |-> value]],
     last |-> [op |-> op, key |-> key, found |-> found, content |-> content,
               was_stored |-> written.log[key].state = "stored"]]

StoreBytes ==
    /\ written.ops < MaxOps
    /\ \E key \in Keys, data \in Values :
        /\ files' = store_bytes(files, key, data)
        /\ written' = Logged("store", key, TRUE, DataFile(data), "stored", data)
    /\ NotStoring

LoadBytes ==
    /\ written.ops < MaxOps
    /\ \E key \in Keys :
        written' = Logged("load", key, load_bytes(files, key).found,
                          load_bytes(files, key).content, "same", 0)
    /\ UNCHANGED files
    /\ NotStoring

Exists ==
    /\ written.ops < MaxOps
    /\ \E key \in Keys :
        written' = Logged("exists", key, exists(files, key), Absent, "same", 0)
    /\ UNCHANGED files
    /\ NotStoring

Delete ==
    /\ written.ops < MaxOps
    /\ \E key \in Keys :
        /\ files' = delete(files, key).files
        /\ written' = Logged("delete", key, delete(files, key).deleted, Absent, "deleted", 0)
    /\ NotStoring

StorageNext == StoreBytes \/ LoadBytes \/ Exists \/ Delete

StorageSpec == Init /\ [][StorageNext]_vars

(***************************************************************************)
(* Properties.                                                             *)
(***************************************************************************)
ScreenIds(screens) == { screens[k].screen_id : k \in 1..Len(screens) }

Distinct(seq) == \A i, j \in 1..Len(seq) : i # j => seq[i] # seq[j]

\* the result the caller holds is the one call r returned
Live(r) == obs[r].returned /\ ~obs[r].degraded

\* the step budget of t seconds: the n with 5n <= t < 5(n+1)
Budget(t) ==
    CHOOSE n \in 0..(MaxSteps + 1) : StepSeconds * n <= t /\ t < StepSeconds * (n + 1)

C1_Screens(r) ==
    /\ Len(explorer[r].screens) = Cardinality(obs[r].observed)
    /\ Len(obs[r].fps) = Len(explorer[r].screens)
    /\ Distinct(obs[r].fps)
    /\ Distinct([k \in 1..Len(explorer[r].screens) |-> explorer[r].screens[k].screen_id])

C1_Kept(r) ==
    pc[r] = "explore" =>
        \A k \in 1..Len(explorer[r].screens) :
            /\ Len(explorer'[r].screens) >= k
            /\ explorer'[r].screens[k] = explorer[r].screens[k]
            /\ obs'[r].fps[k] = obs[r].fps[k]

\* C1: at every point of an exploration run the screens recorded and the
\* distinct fingerprints of the snapshots processed so far are in one-to-one
\* correspondence (as many screens as distinct fingerprints, no two screens
\* for one fingerprint), screen ids are pairwise distinct, and a screen once
\* recorded keeps its id and its fingerprint
C1_NoDuplicateScreens ==
    /\ [](\A r \in Runs : C1_Screens(r))
    /\ [][\A r \in Runs : C1_Kept(r)]_vars

\* C1 witness: a run that has seen a fingerprint again after finding two screens
C1_Witness ==
    \E r \in Runs :
        /\ pc[r] = "explore"
        /\ Len(explorer[r].screens) >= 2
        /\ obs[r].snapshots > Len(explorer[r].screens)

Integrity(d) ==
    \A k \in 1..Len(d.transitions) :
        /\ d.transitions[k].from_screen_id \in ScreenIds(d.screens)
        /\ d.transitions[k].to_screen_id \in ScreenIds(d.screens)

\* C2: in the explorer at every point of the loop, in the value analyze is
\* about to return and in the result the caller receives (live or mock),
\* both ends of every transition are ids of screens of the same screen list
C2_TransitionIntegrity ==
    /\ \A r \in Runs :
        /\ Integrity(explorer[r])
        /\ ret[r].kind = "result" => Integrity(ret[r].data)
    /\ result.kind = "result" => Integrity(result.data)

\* C2 witness: a live result with a transition has been returned
C2_Witness ==
    /\ result.kind = "result"
    /\ result.warnings = << >>
    /\ Len(result.data.transitions) >= 1

\* C3: stop() is invoked exactly once on every session an analyze() call
\* created, also over repeated calls on one service: never twice, once by
\* the time the creating call has returned, and no command follows it
C3_StopExactlyOnce ==
    \A s \in SessionIds :
        hist[s].creator # 0 =>
            /\ hist[s].stops <= 1
            /\ ~hist[s].issued_after_stop
            /\ pc[hist[s].creator] = "done" => hist[s].stops >= 1

C5_StepBudget ==
    \A r \in Runs :
        obs[r].explored =>
            LET N == Budget(input[r].exploration_time_seconds)
            IN /\ loop[r].max_actions = N
               /\ obs[r].iterations <= N
               /\ obs[r].snapshots <= N
               /\ explorer[r].action_count <= N
               /\ Len(explorer[r].actions) <= N
               /\ Len(explorer[r].screens) <= N
               /\ Live(r) =>
                    /\ result.data.total_actions <= N
                    /\ Len(result.data.screens) <= N
               /\ N = 0 =>
                    /\ ~obs[r].loop_cmds
                    /\ obs[r].returned =>
                        /\ Live(r)
                        /\ result.data.screens = << >>
                        /\ result.data.transitions = << >>
                        /\ result.data.total_actions = 0

\* C5 witness: a live result whose budget of at least 2 steps, from a time
\* that is no multiple of 5, was used up by taps
C5_Witness ==
    \E r \in Runs :
        /\ Live(r)
        /\ input[r].exploration_time_seconds % StepSeconds # 0
        /\ loop[r].max_actions >= 2
        /\ result.data.total_actions = loop[r].max_actions

\* C6: every failed step is followed by one press_back and then by the next
\* step: the loop is left only when the budget is used up, and what the
\* explorer recorded is what the run returns
C6_RecoveryKeepsLoop ==
    \A r \in Runs :
        obs[r].explored =>
            /\ obs[r].step_failed <=> obs[r].step_backs = 1
            /\ ~obs[r].left_early
            /\ pc[r] \in {"finally", "done"} =>
                /\ loop[r].i = loop[r].max_actions
                /\ ret[r].data.screens = explorer[r].screens
                /\ ret[r].data.transitions = explorer[r].transitions
                /\ ret[r].data.total_actions = explorer[r].action_count

\* C7: once the session is Ready no command failure makes the result the
\* mock one: the run returns the live result without warnings, and only a
\* session that did not get ready gives the mock result
C7_OnlyBootDegrades ==
    \A r \in Runs :
        pc[r] \in {"finally", "done"} /\ obs[r].session # NoSession =>
            (obs[r].ready <=> ret[r].warnings = << >>)

\* C8: a command issued on a session after stop() fails at once, whatever
\* the error is called, and nothing is sent to the device
C8_ClosedAfterStop ==
    \A s \in SessionIds :
        /\ ~hist[s].sent_after_stop
        /\ ~hist[s].ok_after_stop

\* C9: stop() leaves the session with no process and not ready whatever its
\* state was, and a stop() on a stopped session changes nothing of it and
\* terminates no process
C9_StopIdempotent ==
    /\ [](\A s \in SessionIds :
            hist[s].stopped => ~sessions[s].process /\ ~sessions[s].is_ready)
    /\ [][\A s \in SessionIds :
            hist'[s].stops > hist[s].stops /\ hist[s].stopped =>
                /\ sessions'[s] = sessions[s]
                /\ hist'[s].terminates = hist[s].terminates]_vars

\* C9 witness: a session with a process was stopped twice
C9_Witness ==
    \E s \in SessionIds : hist[s].stops >= 2 /\ hist[s].terminates = 1

\* C10: the coverage of a live result is min(screens / max(activities, 1), 1):
\* it lies in [0, 1], is 0 exactly when there is no screen and 1 exactly
\* when there are at least max(activities, 1) screens
C10_Coverage ==
    \A r \in Runs :
        Live(r) =>
            LET c == result.data.exploration_coverage
                n == Len(result.data.screens)
                d == Max(input[r].activities, 1)
            IN /\ c.d > 0
               /\ c.n * d = Min(n, d) * c.d
               /\ 0 <= c.n /\ c.n <= c.d
               /\ c.n = 0 <=> n = 0
               /\ c.n = c.d <=> n >= d

\* C10 witness: a live result with more screens than the two or more declared activities
C10_Witness ==
    \E r \in Runs :
        /\ Live(r)
        /\ input[r].activities >= 2
        /\ Len(result.data.screens) > input[r].activities

\* C11: the coverage of the mock result returned when the session failed to
\* get ready is computed from the number of declared activities: some other
\* number of activities would have given another coverage
C11_MockCoverageFromActivities ==
    \A r \in Runs :
        obs[r].returned /\ obs[r].session # NoSession /\ ~obs[r].ready =>
            \E n \in 0..MaxActivities :
                mock_analysis(ReadInput(input[r], "activities", n)).data.exploration_coverage
                    # result.data.exploration_coverage

RECURSIVE PairsOf(_)
\* the (element id, first 20 characters of text) pairs of a forest of UIElements
PairsOf(elems) ==
    IF elems = << >> THEN << >>
    ELSE << << Head(elems).element_id, Slice(Head(elems).text, TextPrefixLen) >> >>
         \o PairsOf(Head(elems).children) \o PairsOf(Tail(elems))

Count(x, seq) == Cardinality({ k \in 1..Len(seq) : seq[k] = x })

\* two sequences with the same elements, each as often
SameBag(s, t) ==
    /\ Len(s) = Len(t)
    /\ \A k \in 1..Len(s) : Count(s[k], s) = Count(s[k], t)

\* C12: two well-formed documents whose multisets of (element id, first 20
\* characters of text) pairs are equal get equal fingerprints from
\* _parse_ui_hierarchy, in whatever order and nesting the elements come
C12_FingerprintStability ==
    (/\ ~probe.ra.raised
     /\ ~probe.rb.raised
     /\ SameBag(PairsOf(probe.ra.elements), PairsOf(probe.rb.elements)))
        => probe.ra.state_hash = probe.rb.state_hash

\* C12 witness: two documents with the same pairs in another order, one of
\* them with a text that differs after its first 20 characters
C12_Witness ==
    /\ probe.kind = "pair"
    /\ ~probe.ra.raised /\ ~probe.rb.raised
    /\ Len(PairsOf(probe.ra.elements)) >= 2
    /\ SameBag(PairsOf(probe.ra.elements), PairsOf(probe.rb.elements))
    /\ PairsOf(probe.ra.elements) # PairsOf(probe.rb.elements)
    /\ \E k \in 1..Len(probe.a) : \A j \in 1..Len(probe.b) : probe.a[k] # probe.b[j]

\* the second document is a change of the first, and both were parsed
Changed(kinds) == probe.kind \in kinds /\ ~probe.ra.raised /\ ~probe.rb.raised

\* the second fingerprint is not taken for a revisit of the first
TakenForNew ==
    /\ probe.ra.state_hash # probe.rb.state_hash
    /\ is_new_state(probe.rb.state_hash, {probe.ra.state_hash})

\* C13 as stated: a change of the text of any element, and a clickable
\* element that appears or disappears, change the fingerprint
C13_FingerprintSensitivity ==
    Changed({"text", "add", "remove"}) => TakenForNew

\* C13 amended: a change within the first 20 characters of the text of an
\* element the parser keeps (its bounds attribute matches the pattern), and
\* such an element that appears or disappears, change the fingerprint
C13_PrefixSensitivity ==
    /\ (/\ Changed({"text"})
        /\ probe.node.bounds # << >>
        /\ Slice(probe.was, TextPrefixLen) # Slice(probe.node.text, TextPrefixLen))
            => TakenForNew
    /\ (Changed({"add", "remove"}) /\ probe.node.bounds # << >>) => TakenForNew

\* C13 witness: in a document of two or more elements, a text of more than
\* 20 characters was replaced by one with another beginning
C13_Witness ==
    /\ Changed({"text"})
    /\ probe.node.bounds # << >>
    /\ Len(probe.was) > TextPrefixLen
    /\ Slice(probe.was, TextPrefixLen) # Slice(probe.node.text, TextPrefixLen)
    /\ Len(PairsOf(probe.ra.elements)) >= 2

\* the fingerprint and the one clickable element of the k-th screen of the linear app
LinearFp(k) == parse_ui_hierarchy(LinearApp[k].doc).state_hash

LinearButton(k) ==
    get_clickable_elements(parse_ui_hierarchy(LinearApp[k].doc).elements)[1].element_id

\* transition t leads from the k-th recorded screen to the next, by the tap
\* on the button of the k-th screen, performed there as the k-th action
LinearLink(t, k) ==
    /\ t.from_screen_id = k - 1
    /\ t.to_screen_id = k
    /\ t.triggered_by_action.action_id = k - 1
    /\ t.triggered_by_action.action_type = "tap"
    /\ t.triggered_by_action.source_screen_id = k - 1
    /\ t.triggered_by_action.target_element_id = LinearButton(k)

\* screens and transitions are those of the linear app
LinearGraph(d, fps) ==
    /\ Len(d.screens) = 3
    /\ fps = [k \in 1..3 |-> LinearFp(k)]
    /\ \A k \in 1..3 : d.screens[k].screen_id = k - 1
    /\ Len(d.transitions) = 2
    /\ LinearLink(d.transitions[1], 1)
    /\ LinearLink(d.transitions[2], 2)

\* C14: on the linear app, a run of 3 or more steps with no failed command
\* has, from its third step on and in its live result, exactly 3 screens
\* and exactly 2 transitions, first to second and second to third, each
\* triggered by the tap performed on its from-screen
C14_LinearApp ==
    \A r \in Runs :
        /\ (pc[r] = "explore" /\ loop[r].i >= 3) => LinearGraph(explorer[r], obs[r].fps)
        /\ (Live(r) /\ loop[r].max_actions >= 3) => LinearGraph(result.data, obs[r].fps)

\* C14 witness: a live result of a run of 3 or more steps on the linear app
C14_Witness ==
    \E r \in Runs :
        /\ Live(r)
        /\ loop[r].max_actions >= 3
        /\ result.data.total_actions = loop[r].max_actions

\* every snapshot call r has processed so far had the same fingerprint
OneFingerprint(r) == obs[r].explored /\ Cardinality(obs[r].observed) = 1

\* C15: a run all of whose processed snapshots have the same fingerprint has
\* exactly 1 screen and no transition, at every point of the loop and in
\* its live result, whatever its number of steps and of actions
C15_CyclicApp ==
    \A r \in Runs :
        OneFingerprint(r) =>
            /\ Len(explorer[r].screens) = 1
            /\ explorer[r].transitions = << >>
            /\ Live(r) =>
                /\ Len(result.data.screens) = 1
                /\ result.data.transitions = << >>

\* C15 witness: a live result of a run that tapped twice or more and saw one
\* fingerprint only
C15_Witness ==
    \E r \in Runs :
        /\ OneFingerprint(r)
        /\ Live(r)
        /\ obs[r].snapshots >= 2
        /\ result.data.total_actions >= 2

\* fp is the fingerprint of a snapshot without clickable, visible and enabled element
NoClickable(fp) ==
    \E snap \in Snapshots :
        /\ ~parse_ui_hierarchy(snap.doc).raised
        /\ parse_ui_hierarchy(snap.doc).state_hash = fp
        /\ get_clickable_elements(parse_ui_hierarchy(snap.doc).elements) = << >>

\* the step just made by call r processed a snapshot with nothing to click
EmptyStep(r) ==
    /\ obs'[r].iterations = obs[r].iterations + 1
    /\ obs'[r].step_processed
    /\ NoClickable(obs'[r].step_fp)

\* every iteration of call r processed the same snapshot with nothing to click
EmptyRun(r) ==
    /\ obs[r].explored
    /\ obs[r].iterations >= 1
    /\ obs[r].snapshots = obs[r].iterations
    /\ \E fp \in obs[r].observed : obs[r].observed = {fp} /\ NoClickable(fp)

\* C16: a step whose snapshot has nothing to click makes the one fallback
\* swipe and leaves the action list and the action count as they were; a
\* run in which every step sees the same such snapshot has exactly one
\* screen, no transition and no action, in the loop and in its live result
C16_EmptyApp ==
    /\ [][\A r \in Runs :
            EmptyStep(r) =>
                /\ obs'[r].step_swipes = 1
                /\ obs'[r].step_actions = 0
                /\ explorer'[r].actions = explorer[r].actions
                /\ explorer'[r].action_count = explorer[r].action_count]_vars
    /\ [](\A r \in Runs :
            EmptyRun(r) =>
                /\ obs[r].step_swipes = 1
                /\ Len(explorer[r].screens) = 1
                /\ explorer[r].transitions = << >>
                /\ explorer[r].actions = << >>
                /\ explorer[r].action_count = 0
                /\ Live(r) =>
                    /\ Len(result.data.screens) = 1
                    /\ result.data.transitions = << >>
                    /\ result.data.total_actions = 0)

\* C16 witness: a live result of a run of two or more steps that saw the
\* same snapshot with nothing to click at every step
C16_Witness ==
    \E r \in Runs :
        /\ EmptyRun(r)
        /\ Live(r)
        /\ obs[r].iterations >= 2
        /\ obs[r].step_swipes = 1

\* C17: a device command that is never answered is ended by its own timeout:
\* no call of analyze is ever left waiting for the answer to a command it sent
C17_CommandTimeout ==
    \A r \in Runs : pc[r] # "hung"

\* what the caller of key k expects of the directory fs: the value it stored
\* last unless it deleted the key since, and nothing after it deleted it
AsWritten(fs, k) ==
    /\ written.log[k].state = "stored" =>
            /\ exists(fs, k)
            /\ load_bytes(fs, k) = [found |-> TRUE, content |-> DataFile(written.log[k].value)]
    /\ written.log[k].state = "deleted" =>
            /\ ~exists(fs, k)
            /\ ~load_bytes(fs, k).found
            /\ ~delete(fs, k).deleted

\* C18: after any history of store, load and delete, every key loads the
\* value stored last under it and exists, whatever was done with other keys,
\* unless it was deleted since; then it does not exist, does not load and a
\* further delete returns false; delete returns true exactly when the key
\* existed
C18_StoreLoadDelete ==
    /\ \A k \in Keys : AsWritten(files, k)
    /\ written.last.op = "delete" => (written.last.found <=> written.last.was_stored)
    /\ written.last.op = "load" /\ written.last.was_stored =>
            /\ written.last.found
            /\ written.last.content = DataFile(written.log[written.last.key].value)
    /\ written.last.op = "exists" /\ written.last.was_stored => written.last.found

\* the id of the screen that call r recorded for the fingerprint fp
ScreenOf(r, fp) ==
    explorer[r].screens[CHOOSE k \in 1..Len(obs[r].fps) : obs[r].fps[k] = fp].screen_id

\* C19: after every processed snapshot the current screen of the loop is the
\* screen recorded for the fingerprint of that snapshot, new or revisited,
\* and the action recorded on that snapshot has that screen as its source
C19_CurrentScreen ==
    \A r \in Runs :
        obs[r].explored /\ obs[r].step_processed =>
            /\ loop[r].current_screen_id = ScreenOf(r, obs[r].step_fp)
            /\ obs[r].step_actions = 1 =>
                    explorer[r].actions[Len(explorer[r].actions)].source_screen_id
                        = ScreenOf(r, obs[r].step_fp)

\* the step just made by call r found a new screen after some action was recorded
FoundAfterAction(r) ==
    /\ obs'[r].iterations = obs[r].iterations + 1
    /\ Len(explorer'[r].screens) = Len(explorer[r].screens) + 1
    /\ Len(explorer[r].actions) > 0

\* the transition the step just made by call r appended
Appended(r) == explorer'[r].transitions[Len(explorer'[r].transitions)]

\* C20: a step that finds a new fingerprint after at least one action records
\* exactly one transition: into the new screen, from the screen observed in
\* the step before, triggered by the action recorded in that step before
C20_TransitionAttribution ==
    [][\A r \in Runs :
        FoundAfterAction(r) =>
            /\ Len(explorer'[r].transitions) = Len(explorer[r].transitions) + 1
            /\ Appended(r).to_screen_id
                    = explorer'[r].screens[Len(explorer'[r].screens)].screen_id
            /\ obs[r].step_processed
            /\ Appended(r).from_screen_id = ScreenOf(r, obs[r].step_fp)
            /\ obs[r].step_actions = 1
            /\ Appended(r).triggered_by_action
                    = explorer[r].actions[Len(explorer[r].actions)]]_vars

\* the step just made by call r processed a snapshot with something to click
TapStep(r) ==
    /\ obs'[r].iterations = obs[r].iterations + 1
    /\ obs'[r].step_processed
    /\ ~NoClickable(obs'[r].step_fp)

\* the step just made by call r found a new screen, the step before it having
\* recorded an action
FoundAfterTap(r) ==
    /\ obs'[r].iterations = obs[r].iterations + 1
    /\ Len(explorer'[r].screens) = Len(explorer[r].screens) + 1
    /\ obs[r].step_actions = 1

\* C21: a tap step appends its UserAction and increments the action count
\* whether the tap command then succeeds or fails; a live result counts every
\* recorded action, those of failed taps included; and a new screen found in
\* the step after a tap step, failed or not, gets one transition into it that
\* is triggered by that step's action
C21_RecordBeforeTap ==
    /\ [][\A r \in Runs :
            /\ TapStep(r) =>
                    /\ obs'[r].step_actions = 1
                    /\ Len(explorer'[r].actions) = Len(explorer[r].actions) + 1
                    /\ SubSeq(explorer'[r].actions, 1, Len(explorer[r].actions))
                            = explorer[r].actions
                    /\ explorer'[r].action_count = explorer[r].action_count + 1
            /\ FoundAfterTap(r) =>
                    /\ Len(explorer'[r].transitions) = Len(explorer[r].transitions) + 1
                    /\ Appended(r).triggered_by_action
                            = explorer[r].actions[Len(explorer[r].actions)]
                    /\ Appended(r).to_screen_id
                            = explorer'[r].screens[Len(explorer'[r].screens)].screen_id]_vars
    /\ [](\A r \in Runs :
            /\ obs[r].explored => explorer[r].action_count = Len(explorer[r].actions)
            /\ Live(r) => result.data.total_actions = Len(explorer[r].actions))

\* C21 witness: a live result of a run in which a tap failed and the next
\* step, its last, found a new screen, with the transition into it and the
\* action counted
C21_Witness ==
    \E r \in Runs :
        /\ Live(r)
        /\ obs[r].linked_failed_tap
        /\ result.data.total_actions >= 1
        /\ Len(result.data.transitions) >= 1

\* the first probe of probes that answers "1"
FirstOne(probes) ==
    CHOOSE i \in 1..Len(probes) : probes[i] = "1" /\ \A j \in 1..(i - 1) : probes[j] # "1"

\* start() on the answers probes that fit before the boot deadline: ready
\* exactly when one of them is "1", after repeating every probe before it;
\* otherwise every probe is made and EmulatorError leaves is_ready false
BootAsProbed(probes) ==
    LET started == session_start(NewSession, TRUE, TRUE, probes)
    IN IF \E i \in 1..Len(probes) : probes[i] = "1"
       THEN /\ ~started.raised
            /\ started.session.is_ready
            /\ started.session.process
            /\ started.polls = FirstOne(probes)
       ELSE /\ started.raised
            /\ ~started.session.is_ready
            /\ started.polls = Len(probes)

\* start() without the emulator or adb binary raises before any probe
NoBinaryNoProbe ==
    \A emulator_found \in BOOLEAN, adb_found \in BOOLEAN, probes \in ProbeSeqs :
        ~(emulator_found /\ adb_found) =>
            LET started == session_start(NewSession, emulator_found, adb_found, probes)
            IN started.raised /\ ~started.session.is_ready /\ started.polls = 0

\* the session the commands of call r go to
SessionUsed(r) == IF pc[r] = "explore" THEN explorer[r].session ELSE emulator

\* C22: a session is ready only between a start() in which a boot probe
\* answered "1" and its stop(): the start about to be made repeats failed
\* and not-ready probes up to the deadline and raises with is_ready false when
\* none answers "1"; a ready session has a process, was started and is not
\* stopped; a session becomes ready in its start() only, and never after a
\* stop(); a call whose start() raised has a session that is not ready and
\* issues no command; and the install, the launch and the exploration
\* commands are issued on a ready session
C22_SessionLifecycle ==
    /\ []((\E r \in Runs : pc[r] = "start") =>
            /\ \A probes \in ProbeSeqs : BootAsProbed(probes)
            /\ NoBinaryNoProbe)
    /\ [](\A s \in SessionIds :
            /\ sessions[s].is_ready =>
                    sessions[s].process /\ hist[s].started /\ ~hist[s].stopped
            /\ hist[s].stopped => ~sessions[s].is_ready /\ ~sessions[s].process)
    /\ [][\A s \in SessionIds :
            /\ sessions'[s].is_ready /\ ~sessions[s].is_ready =>
                    hist'[s].started /\ ~hist[s].started
            /\ hist[s].stopped => ~sessions'[s].is_ready]_vars
    /\ [](\A r \in Runs :
            /\ obs[r].session # NoSession =>
                    (obs[r].ready \/ ~sessions[obs[r].session].is_ready)
            /\ obs[r].session # NoSession /\ ~obs[r].ready /\ pc[r] # "hung" =>
                    obs[r].degraded /\ ~obs[r].issued
            /\ pc[r] \in {"install", "launch", "explore"} =>
                    /\ SessionUsed(r) = obs[r].session
                    /\ obs[r].ready
                    /\ sessions[SessionUsed(r)].is_ready
            /\ obs[r].issued => obs[r].ready)

\* C22 witness: the second call of a service, whose session became ready,
\* took the install, the launch and commands of the loop and has then been
\* stopped once, the session of the first call having been stopped as well
C22_Witness ==
    \E r \in Runs :
        /\ Live(r)
        /\ obs[r].ready /\ obs[r].loop_cmds
        /\ obs[r].session > 1
        /\ ~sessions[obs[r].session].is_ready
        /\ hist[obs[r].session].stops = 1
        /\ \A s \in 1..obs[r].session : hist[s].started /\ hist[s].stopped

\* the step just made by call r processed a malformed document
MalformedStep(r) ==
    /\ obs'[r].iterations = obs[r].iterations + 1
    /\ obs'[r].step_processed
    /\ obs'[r].step_fp = parse_ui_hierarchy(MalformedDoc).state_hash

\* the iteration call r would make now on a malformed document, its
\* commands failing at fail_at
OnMalformed(r, fail_at) ==
    explore_try(explorer[r], loop[r].current_screen_id, SnapMalformed, fail_at, 1)

\* C23: a malformed document parses, without an exception, to no elements;
\* the step that gets one while the device answers raises nothing, so no
\* press_back is made for it, swipes, and records no action; every step made
\* on one took the swipe branch and left the action list and count as they
\* were, and the loop went on to the next step unless the swipe itself failed
C23_MalformedStep ==
    /\ [](/\ ~parse_ui_hierarchy(MalformedDoc).raised
          /\ parse_ui_hierarchy(MalformedDoc).elements = << >>
          /\ \A r \in Runs :
                pc[r] = "explore" =>
                    /\ ~OnMalformed(r, "none").raised
                    /\ OnMalformed(r, "none").processed
                    /\ OnMalformed(r, "none").swiped
                    /\ OnMalformed(r, "none").explorer.actions = explorer[r].actions
                    /\ OnMalformed(r, "none").explorer.action_count
                            = explorer[r].action_count
                    /\ OnMalformed(r, "input").swiped)
    /\ [][\A r \in Runs :
            MalformedStep(r) =>
                /\ obs'[r].step_swipes = 1
                /\ obs'[r].step_actions = 0
                /\ explorer'[r].actions = explorer[r].actions
                /\ explorer'[r].action_count = explorer[r].action_count
                /\ ~obs'[r].step_failed =>
                        /\ obs'[r].step_backs = 0
                        /\ pc'[r] = "explore"
                        /\ loop'[r].i = loop[r].i + 1]_vars

\* C23 witness: a live result of a run whose last step, not its first, got a
\* malformed document after an action had been recorded, and went through
\* without recovery
C23_Witness ==
    \E r \in Runs :
        /\ Live(r)
        /\ obs[r].iterations >= 2
        /\ obs[r].step_processed
        /\ obs[r].step_fp = parse_ui_hierarchy(MalformedDoc).state_hash
        /\ obs[r].step_swipes = 1
        /\ ~obs[r].step_failed
        /\ Len(explorer[r].actions) >= 1

\* call r has returned the mock result
Mock(r) == obs[r].returned /\ obs[r].degraded

\* C24: the mock result for n declared activities has n screens, the k-th
\* with id k and the name of the k-th declared activity (counted from 0),
\* max(n - 1, 0) transitions, the i-th with id i from screen i to screen
\* i + 1 and triggered by a tap whose source is screen i, total_actions equal
\* to the number of transitions, and the coverage 0.3 whatever n is
C24_MockShape ==
    \A r \in Runs :
        Mock(r) =>
            LET n == input[r].activities
                d == result.data
            IN /\ Len(d.screens) = n
               /\ \A k \in 0..(n - 1) :
                    /\ d.screens[k + 1].screen_id = k
                    /\ d.screens[k + 1].activity_name = declared_activity(k)
               /\ Len(d.transitions) = Max(n - 1, 0)
               /\ \A i \in 0..(n - 2) :
                    /\ d.transitions[i + 1].transition_id = i
                    /\ d.transitions[i + 1].from_screen_id = i
                    /\ d.transitions[i + 1].to_screen_id = i + 1
                    /\ d.transitions[i + 1].triggered_by_action.source_screen_id = i
                    /\ d.transitions[i + 1].triggered_by_action.action_type = "tap"
               /\ d.total_actions = Len(d.transitions)
               /\ d.exploration_coverage.n * 10 = 3 * d.exploration_coverage.d

\* C24 witness: the mock result for the largest number of declared activities
C24_Witness ==
    \E r \in Runs :
        /\ Mock(r)
        /\ input[r].activities = MaxActivities
        /\ Len(result.data.screens) = MaxActivities
        /\ Len(result.data.transitions) = MaxActivities - 1

\* C25: two documents whose top-level nodes are the same nodes, children
\* included, in another order get the same fingerprint, nodes without
\* resource id included
C25_SiblingOrder ==
    (/\ probe.kind = "pair"
     /\ SameBag(probe.a, probe.b))
        => probe.ra.state_hash = probe.rb.state_hash

\* all elements of a forest, children included
RECURSIVE Flatten(_)
Flatten(elems) ==
    IF elems = << >> THEN << >>
    ELSE << Head(elems) >> \o Flatten(Head(elems).children) \o Flatten(Tail(elems))

\* the elements of the screens call r has recorded
Recorded(r) ==
    UNION { { Flatten(explorer[r].screens[k].root_elements)[j] :
                j \in 1..Len(Flatten(explorer[r].screens[k].root_elements)) } :
            k \in 1..Len(explorer[r].screens) }

\* the ratio c lies in [0, 1]
InUnit(c) == 0 <= c.n /\ c.n <= c.d

\* the ratio c, scaled to size pixels, is the pixel px up to truncation
AtPixel(c, px, size) == px * c.d <= c.n * size /\ c.n * size < (px + 1) * c.d

\* the ratio c is the midpoint of the ratios lo and hi
Midpoint(c, lo, hi) == 2 * c.n * lo.d * hi.d = c.d * (lo.n * hi.d + hi.n * lo.d)

\* C26: the coordinates of every recorded tap lie in [0, 1] and are the
\* midpoint of the bounding box of the element tapped, which is the pixel
\* tapped divided by the 1080x1920 reference resolution, up to truncation
C26_TapCoordinates ==
    \A r \in Runs :
        \A k \in 1..Len(explorer[r].actions) :
            LET a == explorer[r].actions[k]
            IN \E e \in Recorded(r) :
                /\ e.element_id = a.target_element_id
                /\ InUnit(a.coordinates[1])
                /\ InUnit(a.coordinates[2])
                /\ Midpoint(a.coordinates[1], e.bounds_left, e.bounds_right)
                /\ Midpoint(a.coordinates[2], e.bounds_top, e.bounds_bottom)
                /\ AtPixel(a.coordinates[1], tap_point(e)[1], screen_width)
                /\ AtPixel(a.coordinates[2], tap_point(e)[2], screen_height)

\* the element ids of a forest, children included
IdsOf(elems) == [j \in 1..Len(Flatten(elems)) |-> Flatten(elems)[j].element_id]

\* C27: the elements of one parsed snapshot, children included, have
\* pairwise distinct element ids, so that every id among its clickable
\* elements names exactly one element
C27_UniqueElementIds ==
    (probe.kind # "none" /\ ~probe.rb.raised) =>
        /\ Distinct(IdsOf(probe.rb.elements))
        /\ \A j \in 1..Len(get_clickable_elements(probe.rb.elements)) :
                Count(get_clickable_elements(probe.rb.elements)[j].element_id,
                      IdsOf(probe.rb.elements)) = 1

\* the transitions ts over the screens form a forest grown in discovery
\* order: fewer transitions than screens, at most one into each screen, none
\* into the first, and each from a screen found before the one it leads to
DiscoveryForest(screens, ts) ==
    /\ Len(ts) <= Max(Len(screens) - 1, 0)
    /\ \A k \in 1..Len(screens) :
            Cardinality({ i \in 1..Len(ts) : ts[i].to_screen_id = screens[k].screen_id })
                <= (IF k = 1 THEN 0 ELSE 1)
    /\ \A i \in 1..Len(ts) :
            \E j, k \in 1..Len(screens) :
                /\ j < k
                /\ ts[i].from_screen_id = screens[j].screen_id
                /\ ts[i].to_screen_id = screens[k].screen_id

\* the step just made by call r processed a snapshot whose fingerprint the
\* run had seen before
RevisitStep(r) ==
    /\ obs'[r].iterations = obs[r].iterations + 1
    /\ obs'[r].step_processed
    /\ obs'[r].step_fp \in obs[r].observed

\* C28: at every point of a live run, and in its result, the transitions are
\* fewer than the screens, every screen has at most one transition into it
\* and the first screen none, and every transition leads from a screen found
\* earlier to the screen found later; a step of the loop adds a transition
\* only together with the screen it leads to, and a revisit adds neither
C28_DiscoveryTree ==
    /\ [](\A r \in Runs :
            /\ obs[r].explored => DiscoveryForest(explorer[r].screens, explorer[r].transitions)
            /\ Live(r) => DiscoveryForest(result.data.screens, result.data.transitions))
    /\ [][\A r \in Runs :
            /\ RevisitStep(r) =>
                    /\ explorer'[r].screens = explorer[r].screens
                    /\ explorer'[r].transitions = explorer[r].transitions
            /\ pc[r] = "explore" /\ explorer'[r].transitions # explorer[r].transitions =>
                    /\ Len(explorer'[r].transitions) = Len(explorer[r].transitions) + 1
                    /\ Len(explorer'[r].screens) = Len(explorer[r].screens) + 1
                    /\ Appended(r).to_screen_id
                            = explorer'[r].screens[Len(explorer'[r].screens)].screen_id]_vars

\* C28 witness: a live result with two screens and the one transition
\* between them, of a run that then saw one of the two again after a tap
C28_Witness ==
    \E r \in Runs :
        /\ Live(r)
        /\ Len(result.data.screens) = 2
        /\ Len(result.data.transitions) = 1
        /\ obs[r].snapshots = 3
        /\ obs[r].step_fp \in { obs[r].fps[k] : k \in 1..Len(obs[r].fps) }
        /\ Len(explorer[r].actions) >= 2

\* the fingerprint of a malformed document
MalformedFp == parse_ui_hierarchy(MalformedDoc).state_hash

\* no well-formed document has the fingerprint of the malformed ones: the
\* documents of the parser's generator, the tree without nodes among them,
\* and the well-formed snapshots of the device
WellFormedApart ==
    /\ ~parse_ui_hierarchy(Doc(<< >>)).raised
    /\ parse_ui_hierarchy(Doc(<< >>)).elements = << >>
    /\ \A nodes \in NodeLists : parse_ui_hierarchy(Doc(nodes)).state_hash # MalformedFp
    /\ \A snap \in Snapshots :
            ~snap.doc.malformed => parse_ui_hierarchy(snap.doc).state_hash # MalformedFp

\* C29: malformed documents have one fingerprint, which no well-formed
\* document has, the tree without elements included; the first step of a run
\* on a malformed document appends one screen without elements, and one
\* transition into it when an action was recorded before; every later step on
\* one appends nothing, so a run has at most one screen for them
C29_MalformedFingerprint ==
    /\ []((\A r \in Runs : pc[r] = "idle") => WellFormedApart)
    /\ [](\A r \in Runs : Count(MalformedFp, obs[r].fps) <= 1)
    /\ [][\A r \in Runs :
            /\ MalformedStep(r) /\ MalformedFp \notin obs[r].observed =>
                    /\ Len(explorer'[r].screens) = Len(explorer[r].screens) + 1
                    /\ explorer'[r].screens[Len(explorer'[r].screens)].root_elements = << >>
                    /\ explorer'[r].screens[Len(explorer'[r].screens)].interactive_elements
                            = << >>
                    /\ obs'[r].fps = Append(obs[r].fps, MalformedFp)
                    /\ IF Len(explorer[r].actions) > 0
                       THEN /\ Len(explorer'[r].transitions)
                                    = Len(explorer[r].transitions) + 1
                            /\ Appended(r).to_screen_id
                                    = explorer'[r].screens[Len(explorer'[r].screens)].screen_id
                       ELSE explorer'[r].transitions = explorer[r].transitions
            /\ MalformedStep(r) /\ MalformedFp \in obs[r].observed =>
                    /\ explorer'[r].screens = explorer[r].screens
                    /\ explorer'[r].transitions = explorer[r].transitions
                    /\ explorer'[r].visited_states = explorer[r].visited_states]_vars

\* C29 witness: a live result of a run that tapped, then got a malformed
\* document, recorded as its second screen with a transition into it, and
\* then got a malformed document again
C29_Witness ==
    \E r \in Runs :
        /\ Live(r)
        /\ obs[r].snapshots = 3
        /\ obs[r].step_fp = MalformedFp
        /\ Len(obs[r].fps) = 2
        /\ obs[r].fps[2] = MalformedFp
        /\ Len(result.data.screens) = 2
        /\ result.data.screens[2].root_elements = << >>
        /\ Len(result.data.transitions) = 1
        /\ result.data.transitions[1].to_screen_id = result.data.screens[2].screen_id

\* C30: a call that started a session sends its install, its launch and the
\* commands of its loop to that session, and its finally block stops that
\* session, whatever another call on the same service does in between
C30_ExclusiveOwnership ==
    \A r \in Runs :
        (/\ obs[r].session # NoSession
         /\ pc[r] \in {"install", "launch", "explore", "finally"})
            => SessionUsed(r) = obs[r].session

====
